---------------------------- MODULE Spec2Model ----------------------------
(***************************************************************************)
(* Model of the donation tracker (src/main.cpp): the SQLite-backed store   *)
(* behind class DonationTracker (tables donors, donations, organization)  *)
(* and the operations that read and write it.                              *)
(*                                                                         *)
(* Text values are C strings: every std::string is handed to SQLite with   *)
(* sqlite3_bind_text(stmt, i, s.c_str(), -1, ...) and read back with       *)
(* sqlite3_column_text, so a text value is a finite sequence of characters *)
(* without NUL.  A character is a one-element name; a string is a TLA+     *)
(* sequence of characters.                                                 *)
(***************************************************************************)
EXTENDS Integers, Sequences, FiniteSets, TLC

(***************************************************************************)
(* Bounds of the model.                                                    *)
(***************************************************************************)
\* largest donor rowid the model lets AUTOINCREMENT hand out
MaxDonorId == 2
\* largest donation rowid the model lets AUTOINCREMENT hand out
MaxDonationId == 2
\* longest search term typed into the search field
MaxTermLen == 2
\* most donors in a table the search is applied to
MaxSearchDonors == 2
\* most donors and donations in a store letters are generated from
MaxLetterDonors == 2
MaxLetterDonations == 2
\* most donations added through the main window
MaxWindowDonations == 1
\* most donors added through the donor dialog
MaxDialogDonors == 1

(***************************************************************************)
(* Characters.  Two non-ASCII letters stand for every cased letter outside *)
(* ASCII: U+00C9 (capital E acute) and U+00E9 (small e acute).             *)
(***************************************************************************)
CapEAcute == "U+00C9"
SmallEAcute == "U+00E9"

\* Unicode code point of a character; UTF-8 byte order (memcmp, SQLite's
\* BINARY collation) agrees with code point order.
CodePoint(c) ==
    CASE c = "%" -> 37
      [] c = "-" -> 45
      [] c = "0" -> 48
      [] c = "1" -> 49
      [] c = "2" -> 50
      [] c = "3" -> 51
      [] c = "4" -> 52
      [] c = "5" -> 53
      [] c = "A" -> 65
      [] c = "B" -> 66
      [] c = "_" -> 95
      [] c = "a" -> 97
      [] c = "b" -> 98
      [] c = CapEAcute -> 201
      [] c = SmallEAcute -> 233

\* memcmp order of two strings: s strictly before t
RECURSIVE BinaryLess(_, _)
BinaryLess(s, t) ==
    IF t = <<>> THEN FALSE
    ELSE IF s = <<>> THEN TRUE
    ELSE IF CodePoint(Head(s)) # CodePoint(Head(t))
         THEN CodePoint(Head(s)) < CodePoint(Head(t))
         ELSE BinaryLess(Tail(s), Tail(t))

(***************************************************************************)
(* The store.                                                              *)
(*   donors       : rowid -> row of table donors                           *)
(*   donorsSeq    : sqlite_sequence entry of donors (largest rowid ever)   *)
(*   donations    : rowid -> row of table donations                        *)
(*   donationsSeq : sqlite_sequence entry of donations                     *)
(*   organization : rowid -> row of table organization                     *)
(*   table        : rows of the QTableWidget filled by searchDonors        *)
(* Observation (history) variables, not program state:                     *)
(*   last          : the call that produced this state and what it returned*)
(*   assignedIds   : rowids given to donors by successful addDonor calls   *)
(*   deletedDonors : ids removed by a successful deleteDonor               *)
(*   orgWritten    : arguments of the latest successful                    *)
(*                   setOrganizationDetails, <<>> before the first         *)
(* The main window and the letters directory:                              *)
(*   window    : the fields of MainWindow that navigation reads and writes *)
(*               (donorIds, currentDonorIndex, currentDonorId, the enabled *)
(*               state of the four navigation buttons, the donations table)*)
(*   ran       : observation of the slot that produced this state          *)
(*   letters   : the files of directory "letters": file name -> content    *)
(*   letterLog : observation of the latest generateDonationLetters run,    *)
(*               one entry per row its statement returned                  *)
(*   dialog    : the modal dialog of the slot in progress, or of the slot  *)
(*               that ran last once exec() has returned: its class, whether*)
(*               it is open, the texts of its fields and its result()      *)
(***************************************************************************)
VARIABLES donors, donorsSeq, donations, donationsSeq, organization, table,
          last, assignedIds, deletedDonors, orgWritten,
          window, ran, letters, letterLog, dialog

vars == <<donors, donorsSeq, donations, donationsSeq, organization, table,
          last, assignedIds, deletedDonors, orgWritten,
          window, ran, letters, letterLog, dialog>>

\* what the main window holds; the methods of DonationTracker leave it alone
uiVars == <<table, window, ran, dialog>>

\* the empty table: a function with empty domain
NoRows == [r \in {} |-> <<>>]

\* rows of tbl without those whose rowid is in ids
RemoveRows(tbl, ids) == [r \in (DOMAIN tbl) \ ids |-> tbl[r]]

\* tbl with row written at rowid r (INSERT at a fresh rowid, or replacement)
PutRow(tbl, r, row) ==
    [x \in (DOMAIN tbl) \cup {r} |-> IF x = r THEN row ELSE tbl[x]]

(***************************************************************************)
(* The connection.  The constructor opens donations.db and runs the CREATE *)
(* TABLE statements; it never executes PRAGMA foreign_keys = ON.  SQLite   *)
(* enforces FOREIGN KEY clauses (including ON DELETE CASCADE) only on      *)
(* connections where that pragma is on, and it is off by default, so the   *)
(* connection runs with foreign key enforcement off.                       *)
(***************************************************************************)
\* a connection on which PRAGMA foreign_keys = ON had been executed
ForeignKeysOn == TRUE

foreign_keys == FALSE


(***************************************************************************)
(* Rowid assignment of an INTEGER PRIMARY KEY AUTOINCREMENT column: one    *)
(* more than the largest rowid the table has ever held (sqlite_sequence),  *)
(* or than the largest it holds now, whichever is larger.                  *)
(***************************************************************************)
MaxOf(S) == IF S = {} THEN 0 ELSE CHOOSE m \in S : \A x \in S : x <= m

\* what a plain INTEGER PRIMARY KEY (no AUTOINCREMENT) would hand out
MaxRowidPlusOne(tbl, seq) == MaxOf(DOMAIN tbl) + 1

AutoincrementRowid(tbl, seq) == MaxOf((DOMAIN tbl) \cup {seq}) + 1

(***************************************************************************)
(* Arguments and rows.  The arguments of addDonor / updateDonor are bound  *)
(* to the statement's parameters in the order of its column list.          *)
(***************************************************************************)
DonorRow(a) ==
    [first_name |-> a.firstName, last_name |-> a.lastName, street |-> a.street,
     city |-> a.city, state |-> a.state, zip |-> a.zip, country |-> a.country,
     phone |-> a.phone, email |-> a.email]

DonationRow(donorId, amount, date, paymentMethod) ==
    [donor_id |-> donorId, amount |-> amount, date |-> date,
     payment_method |-> paymentMethod]

\* a row inserted without naming the key (its rowid would be fresh each time)
OrganizationKeyFresh == MaxOf(DOMAIN organization) + 1

\* the key setOrganizationDetails writes: VALUES (1, ?, ?)
OrganizationKey == 1

OrganizationRow(name, address) == [name |-> name, address |-> address]

(***************************************************************************)
(* Inputs.  Ann has nine different field values, so that any two fields    *)
(* written or read the wrong way round show.                               *)
(***************************************************************************)
Ann ==
    [firstName |-> <<"A">>, lastName |-> <<"B">>, street |-> <<"a">>,
     city |-> <<"b">>, state |-> <<"A", "a">>, zip |-> <<"A", "b">>,
     country |-> <<"B", "a">>, phone |-> <<"B", "b">>, email |-> <<"a", "b">>]
Bob ==
    [firstName |-> <<"B">>, lastName |-> <<"B">>, street |-> <<"b">>,
     city |-> <<"b">>, state |-> <<"b">>, zip |-> <<"b">>,
     country |-> <<"b">>, phone |-> <<"b">>, email |-> <<"b", "a">>]
DonorInputs == {Ann, Bob}

\* texts for the email field of the donor dialog: an address of the form its
\* pattern describes
ValidEmail == <<"a", "@", "b", ".", "a", "b">>
\* no top-level domain
EmailWithoutDomain == <<"a", "@", "b">>
\* a name in front of an address
EmailAfterName == <<"a", " ", "a", "@", "b", ".", "a", "b">>

\* identifiers a caller may pass: those the store can hold within the bounds
DonorIdInputs == 1..MaxDonorId
DonationIdInputs == 1..MaxDonationId

\* donation dates as QDate::toString("yyyy-MM-dd") writes them
Date2024 == <<"2", "0", "2", "4", "-", "0", "1", "-", "1", "5">>
Cash == <<"c", "a", "s", "h">>
\* (amount in cents, date, payment method)
DonationInputs ==
    {[amount |-> 1000, date |-> Date2024, paymentMethod |-> Cash]}

OrgInputs ==
    {[name |-> <<"A">>, address |-> <<"a">>],
     [name |-> <<"B">>, address |-> <<"A">>]}

(***************************************************************************)
(* Queries (they change nothing, so they are operators on the state).      *)
(***************************************************************************)
\* columns 7 and 8 read into the wrong out-parameters
GetDonorDetailsSwapped(id) ==
    IF id \in DOMAIN donors
    THEN [found |-> TRUE,
          firstName |-> donors[id].first_name, lastName |-> donors[id].last_name,
          street |-> donors[id].street, city |-> donors[id].city,
          state |-> donors[id].state, zip |-> donors[id].zip,
          country |-> donors[id].country, phone |-> donors[id].email,
          email |-> donors[id].phone]
    ELSE [found |-> FALSE]

\* SELECT ... FROM donors WHERE id=?; the out-parameters are written only
\* when a row is found
GetDonorDetails(id) ==
    IF id \in DOMAIN donors
    THEN [found |-> TRUE,
          firstName |-> donors[id].first_name, lastName |-> donors[id].last_name,
          street |-> donors[id].street, city |-> donors[id].city,
          state |-> donors[id].state, zip |-> donors[id].zip,
          country |-> donors[id].country, phone |-> donors[id].phone,
          email |-> donors[id].email]
    ELSE [found |-> FALSE]

\* the arguments of addDonor as getDonorDetails hands them back
Found(a) ==
    [found |-> TRUE, firstName |-> a.firstName, lastName |-> a.lastName,
     street |-> a.street, city |-> a.city, state |-> a.state, zip |-> a.zip,
     country |-> a.country, phone |-> a.phone, email |-> a.email]

\* ascending sequence of the elements of a set of integers
RECURSIVE Ascending(_)
Ascending(S) ==
    IF S = {} THEN <<>>
    ELSE LET m == CHOOSE x \in S : \A y \in S : x <= y
         IN <<m>> \o Ascending(S \ {m})

\* SELECT id FROM donors ORDER BY id
GetAllDonorIds == Ascending(DOMAIN donors)

\* SELECT name, address FROM organization WHERE id=1
GetOrganizationDetails ==
    IF 1 \in DOMAIN organization
    THEN [found |-> TRUE, name |-> organization[1].name,
          address |-> organization[1].address]
    ELSE [found |-> FALSE]

\* SELECT ... FROM donations WHERE donor_id=? on table dons (the rowids of
\* the rows found)
DonationsOf(dons, donorId) == {d \in DOMAIN dons : dons[d].donor_id = donorId}

GetDonationsForDonor(donorId) == DonationsOf(donations, donorId)

\* whether getDonorDetails(id, ...) returns true on table dnrs
HasDonor(dnrs, id) == id \in DOMAIN dnrs

(***************************************************************************)
(* Writes.  Each runs one prepared statement.  `fault` stands for the      *)
(* engine refusing the statement (sqlite3_prepare_v2 not SQLITE_OK, or     *)
(* sqlite3_step not SQLITE_DONE: I/O error, disk full): the statement then *)
(* changes nothing and the method returns false.                           *)
(***************************************************************************)
\* a DonationTracker used without a main window
NoWindow == [open |-> FALSE]
\* no slot of the main window has run
NoSlot == [slot |-> "none"]
\* the letters directory without files
NoFiles == [f \in {} |-> <<>>]
\* no slot has created a dialog
NoDialog == [kind |-> "none", open |-> FALSE]

Init ==
    /\ donors = NoRows
    /\ donorsSeq = 0
    /\ donations = NoRows
    /\ donationsSeq = 0
    /\ organization = NoRows
    /\ table = <<>>
    /\ last = [op |-> "none"]
    /\ assignedIds = <<>>
    /\ deletedDonors = {}
    /\ orgWritten = <<>>
    /\ window = NoWindow
    /\ ran = NoSlot
    /\ letters = NoFiles
    /\ letterLog = <<>>
    /\ dialog = NoDialog

\* what a call left behind for the observer: the method, what it returned,
\* the identifier it was about (for an insert, the rowid assigned) and whether
\* a row with the identifier it was given existed when it was called
Returned(op, ok, id, existed) ==
    [op |-> op, ok |-> ok, id |-> id, existed |-> existed, fault |-> FALSE]

\* a refused call that reports success
RefusedButTrue(op) == [op |-> op, ok |-> TRUE, fault |-> TRUE]

\* what a call the engine refused left behind: it returned false
Refused(op) == [op |-> op, ok |-> FALSE, fault |-> TRUE]

\* INSERT INTO donors (first_name, ..., email) VALUES (?, ..., ?)
addDonor(a, fault) ==
    /\ donorsSeq < MaxDonorId
    /\ UNCHANGED <<donations, donationsSeq, organization,
                   deletedDonors, orgWritten, letters, letterLog>>
    /\ IF fault
       THEN /\ last' = Refused("addDonor")
            /\ UNCHANGED <<donors, donorsSeq, assignedIds>>
       ELSE LET id == AutoincrementRowid(donors, donorsSeq)
            IN /\ donors' = PutRow(donors, id, DonorRow(a))
               /\ donorsSeq' = id
               /\ last' = Returned("addDonor", TRUE, id, FALSE) @@ [args |-> a]
               /\ assignedIds' = Append(assignedIds, id)

\* an UPDATE whose SET list leaves out the last column
updateDonorButEmail(id, a, fault) ==
    /\ UNCHANGED <<donorsSeq, donations, donationsSeq, organization,
                   assignedIds, deletedDonors, orgWritten, letters, letterLog>>
    /\ IF fault
       THEN /\ last' = Refused("updateDonor")
            /\ UNCHANGED donors
       ELSE /\ donors' = IF id \in DOMAIN donors
                         THEN PutRow(donors, id,
                                     [DonorRow(a) EXCEPT !.email = donors[id].email])
                         ELSE donors
            /\ last' = Returned("updateDonor", TRUE, id, id \in DOMAIN donors)
                           @@ [args |-> a]

\* UPDATE donors SET first_name=?, ..., email=? WHERE id=?
\* sqlite3_step is SQLITE_DONE whether or not a row matched.
updateDonor(id, a, fault) ==
    /\ UNCHANGED <<donorsSeq, donations, donationsSeq, organization,
                   assignedIds, deletedDonors, orgWritten, letters, letterLog>>
    /\ IF fault
       THEN /\ last' = Refused("updateDonor")
            /\ UNCHANGED donors
       ELSE /\ donors' = IF id \in DOMAIN donors
                         THEN PutRow(donors, id, DonorRow(a))
                         ELSE donors
            /\ last' = Returned("updateDonor", TRUE, id, id \in DOMAIN donors)
                           @@ [args |-> a]

\* the child rows ON DELETE CASCADE removes with parent rows `ids`: none
\* unless the connection enforces foreign keys
CascadeFrom(ids) ==
    IF foreign_keys
    THEN {d \in DOMAIN donations : donations[d].donor_id \in ids}
    ELSE {}

\* a WHERE clause that matches no row (its parameter left unbound)
MatchedNoDonor(id) == {}

\* the rows WHERE id=? selects
MatchedDonors(id) == {id} \cap DOMAIN donors

\* DELETE FROM donors WHERE id=?
deleteDonor(id, fault) ==
    /\ UNCHANGED <<donorsSeq, donationsSeq, organization,
                   assignedIds, orgWritten, letters, letterLog>>
    /\ IF fault
       THEN /\ last' = Refused("deleteDonor")
            /\ UNCHANGED <<donors, donations, deletedDonors>>
       ELSE /\ donors' = RemoveRows(donors, MatchedDonors(id))
            /\ donations' = RemoveRows(donations, CascadeFrom(MatchedDonors(id)))
            /\ last' = Returned("deleteDonor", TRUE, id, id \in DOMAIN donors)
            /\ deletedDonors' = deletedDonors \cup ({id} \cap DOMAIN donors)

\* whether the engine rejects a child row with this donor_id
\* (SQLITE_CONSTRAINT_FOREIGNKEY): only when it enforces foreign keys
ForeignKeyViolation(donorId) == foreign_keys /\ donorId \notin DOMAIN donors

\* INSERT INTO donations (donor_id, amount, date, payment_method) VALUES (?, ?, ?, ?)
addDonation(donorId, d, fault) ==
    /\ donationsSeq < MaxDonationId
    /\ UNCHANGED <<donors, donorsSeq, organization,
                   assignedIds, deletedDonors, orgWritten, letters, letterLog>>
    /\ IF fault \/ ForeignKeyViolation(donorId)
       THEN /\ last' = IF fault THEN Refused("addDonation")
                       ELSE Returned("addDonation", FALSE, 0, FALSE)
                            @@ [donorId |-> donorId, args |-> d]
            /\ UNCHANGED <<donations, donationsSeq>>
       ELSE LET id == AutoincrementRowid(donations, donationsSeq)
            IN /\ donations' = PutRow(donations, id,
                                      DonationRow(donorId, d.amount, d.date, d.paymentMethod))
               /\ donationsSeq' = id
               /\ last' = Returned("addDonation", TRUE, id, donorId \in DOMAIN donors)
                          @@ [donorId |-> donorId, args |-> d]

\* UPDATE donations SET donor_id=?, amount=?, date=?, payment_method=? WHERE id=?
updateDonation(id, donorId, d, fault) ==
    /\ UNCHANGED <<donors, donorsSeq, donationsSeq, organization,
                   assignedIds, deletedDonors, orgWritten, letters, letterLog>>
    /\ IF fault \/ (id \in DOMAIN donations /\ ForeignKeyViolation(donorId))
       THEN /\ last' = IF fault THEN Refused("updateDonation")
                       ELSE Returned("updateDonation", FALSE, id, TRUE)
            /\ UNCHANGED donations
       ELSE /\ donations' = IF id \in DOMAIN donations
                            THEN PutRow(donations, id,
                                        DonationRow(donorId, d.amount, d.date, d.paymentMethod))
                            ELSE donations
            /\ last' = Returned("updateDonation", TRUE, id, id \in DOMAIN donations)

\* DELETE FROM donations WHERE id=?
deleteDonation(id, fault) ==
    /\ UNCHANGED <<donors, donorsSeq, donationsSeq, organization,
                   assignedIds, deletedDonors, orgWritten, letters, letterLog>>
    /\ IF fault
       THEN /\ last' = Refused("deleteDonation")
            /\ UNCHANGED donations
       ELSE /\ donations' = RemoveRows(donations, {id})
            /\ last' = Returned("deleteDonation", TRUE, id, id \in DOMAIN donations)

\* INSERT OR REPLACE INTO organization (id, name, address) VALUES (1, ?, ?)
setOrganizationDetails(name, address, fault) ==
    /\ UNCHANGED <<donors, donorsSeq, donations, donationsSeq,
                   assignedIds, deletedDonors, letters, letterLog>>
    /\ IF fault
       THEN /\ last' = Refused("setOrganizationDetails")
            /\ UNCHANGED <<organization, orgWritten>>
       ELSE /\ organization' = PutRow(organization, OrganizationKey,
                                      OrganizationRow(name, address))
            /\ last' = Returned("setOrganizationDetails", TRUE, OrganizationKey,
                                OrganizationKey \in DOMAIN organization)
            /\ orgWritten' = <<[name |-> name, address |-> address]>>

\* the methods of DonationTracker called directly, in any order
Next ==
    \/ \E a \in DonorInputs, fault \in BOOLEAN :
          addDonor(a, fault) /\ UNCHANGED uiVars
    \/ \E id \in DonorIdInputs, a \in DonorInputs, fault \in BOOLEAN :
          updateDonor(id, a, fault) /\ UNCHANGED uiVars
    \/ \E id \in DonorIdInputs, fault \in BOOLEAN :
          deleteDonor(id, fault) /\ UNCHANGED uiVars
    \/ \E donorId \in DonorIdInputs, d \in DonationInputs, fault \in BOOLEAN :
          addDonation(donorId, d, fault) /\ UNCHANGED uiVars
    \/ \E id \in DonationIdInputs, donorId \in DonorIdInputs, d \in DonationInputs,
          fault \in BOOLEAN :
          updateDonation(id, donorId, d, fault) /\ UNCHANGED uiVars
    \/ \E id \in DonationIdInputs, fault \in BOOLEAN :
          deleteDonation(id, fault) /\ UNCHANGED uiVars
    \/ \E o \in OrgInputs, fault \in BOOLEAN :
          setOrganizationDetails(o.name, o.address, fault) /\ UNCHANGED uiVars

Spec == Init /\ [][Next]_vars

(***************************************************************************)
(* searchDonors.                                                           *)
(***************************************************************************)
\* QString::toLower: Unicode lower case
QtLowerChar(c) ==
    CASE c = "A" -> "a"
      [] c = "B" -> "b"
      [] c = CapEAcute -> SmallEAcute
      [] OTHER -> c

\* SQLite's built-in LOWER(): ASCII letters only
SqlLowerChar(c) ==
    CASE c = "A" -> "a"
      [] c = "B" -> "b"
      [] OTHER -> c

toLower(s) == [i \in 1..Len(s) |-> QtLowerChar(s[i])]
LOWER(s) == [i \in 1..Len(s) |-> SqlLowerChar(s[i])]

\* SQLite's built-in LIKE (no ESCAPE): % matches any run of characters, _ any
\* one character, any other character itself, ASCII letters without regard
\* to case
RECURSIVE LIKE(_, _)
LIKE(text, pattern) ==
    IF pattern = <<>> THEN text = <<>>
    ELSE IF Head(pattern) = "%"
         THEN LIKE(text, Tail(pattern)) \/ (text # <<>> /\ LIKE(Tail(text), pattern))
    ELSE IF text = <<>> THEN FALSE
    ELSE IF Head(pattern) = "_" THEN LIKE(Tail(text), Tail(pattern))
    ELSE /\ SqlLowerChar(Head(text)) = SqlLowerChar(Head(pattern))
         /\ LIKE(Tail(text), Tail(pattern))

\* the columns the WHERE clause names, in its order
SearchedColumns ==
    {"first_name", "last_name", "email", "phone", "city", "state", "zip", "country"}

\* "%" + QString::fromStdString(searchTerm).toLower().toStdString() + "%"
lowerSearchTerm(searchTerm) == <<"%">> \o toLower(searchTerm) \o <<"%">>

\* WHERE LOWER(first_name) LIKE ? OR ... OR LOWER(country) LIKE ?
Matches(row, searchTerm) ==
    \E c \in SearchedColumns : LIKE(LOWER(row[c]), lowerSearchTerm(searchTerm))

\* ORDER BY last_name, first_name
OrderedBeforeLastFirst(x, y) ==
    \/ BinaryLess(x.last_name, y.last_name)
    \/ x.last_name = y.last_name /\ BinaryLess(x.first_name, y.first_name)

\* ORDER BY first_name, last_name (BINARY collation): x sorts strictly before y
OrderedBefore(x, y) ==
    \/ BinaryLess(x.first_name, y.first_name)
    \/ x.first_name = y.first_name /\ BinaryLess(x.last_name, y.last_name)

\* the sequences that list every id of ids once
Orders(ids) ==
    {s \in [1..Cardinality(ids) -> ids] : \A i, j \in DOMAIN s : i # j => s[i] # s[j]}

\* the orders in which SELECT ... ORDER BY first_name, last_name may return the
\* donors: rows with equal keys come in an order SQL leaves open
SelectAllOrders ==
    {s \in Orders(DOMAIN donors) :
        \A i, j \in DOMAIN s : i < j => ~OrderedBefore(donors[s[j]], donors[s[i]])}

\* SELECT ... WHERE ...: the table is scanned in rowid order
SelectMatching(searchTerm) ==
    Ascending({id \in DOMAIN donors : Matches(donors[id], searchTerm)})

\* one row of the QTableWidget: the ten columns of the SELECT
TableRow(id) ==
    [id |-> id,
     first_name |-> donors[id].first_name, last_name |-> donors[id].last_name,
     street |-> donors[id].street, city |-> donors[id].city,
     state |-> donors[id].state, zip |-> donors[id].zip,
     country |-> donors[id].country, phone |-> donors[id].phone,
     email |-> donors[id].email]

\* the tables searchDonors may fill: the rows in the order the statement
\* returns them
SearchedTables(searchTerm, includeAll) ==
    {[i \in DOMAIN s |-> TableRow(s[i])] :
        s \in (IF includeAll \/ searchTerm = <<>>
               THEN SelectAllOrders
               ELSE {SelectMatching(searchTerm)})}

\* searchDonors(searchTerm, table, includeAll): when the statement cannot be
\* prepared it returns before touching the table; otherwise it empties the
\* table and appends the rows in the order the statement returns them
searchDonors(searchTerm, includeAll, fault) ==
    /\ UNCHANGED <<donors, donorsSeq, donations, donationsSeq, organization,
                   assignedIds, deletedDonors, orgWritten, letters, letterLog>>
    /\ IF fault
       THEN /\ last' = Refused("searchDonors")
            /\ UNCHANGED table
       ELSE /\ last' = [op |-> "searchDonors", fault |-> FALSE,
                        searchTerm |-> searchTerm, includeAll |-> includeAll]
            /\ table' \in SearchedTables(searchTerm, includeAll)

(***************************************************************************)
(* The search applied once to a table of donors drawn from bounded sets.   *)
(***************************************************************************)
Plain == <<"b">>
PlainRow ==
    [first_name |-> Plain, last_name |-> Plain, street |-> Plain, city |-> Plain,
     state |-> Plain, zip |-> Plain, country |-> Plain, phone |-> Plain,
     email |-> Plain]
Columns ==
    {"first_name", "last_name", "street", "city", "state", "zip", "country",
     "phone", "email"}
\* rows that differ from the plain row in one column
SearchRows ==
    {[PlainRow EXCEPT ![c] = <<"B", "a">>] : c \in Columns}
      \cup {[PlainRow EXCEPT !.city = <<CapEAcute>>]}

TermChars == {"a", "A", "_", CapEAcute}
RECURSIVE TermsOfLen(_)
TermsOfLen(n) ==
    IF n = 0 THEN {<<>>}
    ELSE {Append(t, c) : t \in TermsOfLen(n - 1), c \in TermChars}
TermInputs == UNION {TermsOfLen(n) : n \in 0..MaxTermLen}

SearchInit ==
    /\ \E n \in 0..MaxSearchDonors : donors \in [1..n -> SearchRows]
    /\ donorsSeq = Cardinality(DOMAIN donors)
    /\ donations = NoRows
    /\ donationsSeq = 0
    /\ organization = NoRows
    /\ table = <<>>
    /\ last = [op |-> "none"]
    /\ assignedIds = Ascending(DOMAIN donors)
    /\ deletedDonors = {}
    /\ orgWritten = <<>>
    /\ window = NoWindow
    /\ ran = NoSlot
    /\ letters = NoFiles
    /\ letterLog = <<>>
    /\ dialog = NoDialog

SearchNext ==
    /\ last.op = "none"
    /\ \E searchTerm \in TermInputs, includeAll \in BOOLEAN, fault \in BOOLEAN :
          searchDonors(searchTerm, includeAll, fault)
    /\ UNCHANGED <<window, ran, dialog>>

SpecSearch == SearchInit /\ [][SearchNext]_vars

(***************************************************************************)
(* generateDonationLetters.  Amounts are whole cents: the amount field of  *)
(* the donation dialog accepts two decimal places, and a sum of such       *)
(* amounts below 2^53 cents prints exactly with QString::number(x,'f',2).  *)
(***************************************************************************)

DigitChar(d) ==
    CASE d = 0 -> "0" [] d = 1 -> "1" [] d = 2 -> "2" [] d = 3 -> "3"
      [] d = 4 -> "4" [] d = 5 -> "5" [] d = 6 -> "6" [] d = 7 -> "7"
      [] d = 8 -> "8" [] d = 9 -> "9"

\* decimal digits of a natural number
RECURSIVE Digits(_)
Digits(n) ==
    IF n < 10 THEN <<DigitChar(n)>>
    ELSE Digits(n \div 10) \o <<DigitChar(n % 10)>>

\* std::to_string(int)
to_string(n) == IF n < 0 THEN <<"-">> \o Digits(0 - n) ELSE Digits(n)

\* QString::number(x, 'f', 2) of an amount x of `cents` cents
number_f2(cents) ==
    Digits(cents \div 100)
      \o <<".", DigitChar((cents % 100) \div 10), DigitChar(cents % 10)>>

\* SUBSTR(s, 1, n) taking the first n - 1 characters instead
SUBSTR_Short(s, start, n) ==
    SubSeq(s, start, IF start + n - 2 < Len(s) THEN start + n - 2 ELSE Len(s))

\* SQL SUBSTR(s, start, n) for start >= 1: the n characters from position
\* start, fewer when the string ends before
SUBSTR(s, start, n) ==
    SubSeq(s, start, IF start + n - 1 < Len(s) THEN start + n - 1 ELSE Len(s))

\* donors d JOIN donations don ON d.id = don.donor_id
\* WHERE SUBSTR(don.date, 1, 4) = ?  (pairs of rowids)
JoinedRows(yearText) ==
    {r \in (DOMAIN donors) \X (DOMAIN donations) :
        /\ donations[r[2]].donor_id = r[1]
        /\ SUBSTR(donations[r[2]].date, 1, 4) = yearText}

\* SUM(don.amount) over the donations ds of one group
RECURSIVE SUM(_)
SUM(ds) ==
    IF ds = {} THEN 0
    ELSE LET d == CHOOSE x \in ds : TRUE
         IN donations[d].amount + SUM(ds \ {d})

\* the rows of the statement: GROUP BY d.id gives one row per donor that has
\* joined rows, in ascending order of d.id
LetterRows(year) ==
    LET joined == JoinedRows(to_string(year))
        ids == Ascending({r[1] : r \in joined})
    IN [k \in DOMAIN ids |->
          [id |-> ids[k],
           firstName |-> donors[ids[k]].first_name,
           lastName |-> donors[ids[k]].last_name,
           street |-> donors[ids[k]].street, city |-> donors[ids[k]].city,
           state |-> donors[ids[k]].state, zip |-> donors[ids[k]].zip,
           country |-> donors[ids[k]].country,
           totalAmount |-> SUM({r[2] : r \in {x \in joined : x[1] = ids[k]}})]]

LettersDir == <<"l", "e", "t", "t", "e", "r", "s", "/">>
LetterSuffix ==
    <<"_", "d", "o", "n", "a", "t", "i", "o", "n", "_",
      "l", "e", "t", "t", "e", "r", ".", "t", "x", "t">>

\* QString("letters/%1_%2_%3_donation_letter.txt").arg(firstName).arg(lastName).arg(year)
fileName(row, year) ==
    LettersDir \o row.firstName \o <<"_">> \o row.lastName \o <<"_">>
       \o to_string(year) \o LetterSuffix

\* what the letter says (the line with today's date left out)
LetterText(row, year) ==
    LET org == GetOrganizationDetails
    IN [orgName |-> IF org.found THEN org.name ELSE <<>>,
        orgAddress |-> IF org.found THEN org.address ELSE <<>>,
        firstName |-> row.firstName, lastName |-> row.lastName,
        street |-> row.street, city |-> row.city, state |-> row.state,
        zip |-> row.zip, country |-> row.country,
        total |-> number_f2(row.totalAmount),
        year |-> to_string(year)]

\* the files after the first n entries of log have been handled: a file that
\* opens is truncated and written, a file that does not open is left alone
RECURSIVE FilesAfter(_, _, _)
FilesAfter(files, log, n) ==
    IF n = 0 THEN files
    ELSE LET before == FilesAfter(files, log, n - 1)
         IN IF log[n].opened
            THEN [f \in (DOMAIN before) \cup {log[n].fileName} |->
                     IF f = log[n].fileName THEN log[n].text ELSE before[f]]
            ELSE before

\* a loop that leaves at the first file that cannot be opened
StopsAtFirstFailure(log) ==
    [k \in {j \in DOMAIN log : \A i \in 1..(j - 1) : log[i].opened} |-> log[k]]

\* the loop handles every row
HandlesEveryRow(log) == log

\* generateDonationLetters(year): `unwritable` are the donors whose file
\* cannot be opened for writing (file.open returns false)
generateDonationLetters(year, unwritable, fault) ==
    /\ UNCHANGED <<donors, donorsSeq, donations, donationsSeq, organization,
                   assignedIds, deletedDonors, orgWritten>>
    /\ IF fault
       THEN /\ last' = Refused("generateDonationLetters")
            /\ letterLog' = <<>>
            /\ UNCHANGED letters
       ELSE LET rows == LetterRows(year)
                log == HandlesEveryRow(
                         [k \in DOMAIN rows |->
                            [id |-> rows[k].id,
                             totalAmount |-> rows[k].totalAmount,
                             fileName |-> fileName(rows[k], year),
                             text |-> LetterText(rows[k], year),
                             opened |-> rows[k].id \notin unwritable]])
            IN /\ letterLog' = log
               /\ letters' = FilesAfter(letters, log, Len(log))
               /\ last' = [op |-> "generateDonationLetters", fault |-> FALSE,
                           ok |-> \A k \in DOMAIN rows : rows[k].id \notin unwritable,
                           year |-> year, unwritable |-> unwritable]

(***************************************************************************)
(* One run of generateDonationLetters on a store drawn from bounded sets.  *)
(***************************************************************************)
\* donors that differ in their names only (two donors may have the same row);
\* the last two have different names that give the same file name
LetterDonors ==
    {[PlainRow EXCEPT !.first_name = <<"A">>, !.last_name = <<"B">>],
     [PlainRow EXCEPT !.first_name = <<"A", "_", "B">>, !.last_name = <<"a">>],
     [PlainRow EXCEPT !.first_name = <<"A">>, !.last_name = <<"B", "_", "a">>]}

Date2024Feb == <<"2", "0", "2", "4", "-", "0", "2", "-", "0", "1">>
Date2023 == <<"2", "0", "2", "3", "-", "1", "2", "-", "3", "1">>
\* 10.00 and 25.50 in 2024, 25.50 in 2023
LetterDonations ==
    {[amount |-> 1000, date |-> Date2024],
     [amount |-> 2550, date |-> Date2024Feb],
     [amount |-> 2550, date |-> Date2023]}
YearInputs == {2023, 2024}

\* the donations were entered donor by donor and, for one donor, in the
\* order of LetterDonations (the sum does not depend on the order of rowids)
EnteredBefore(x, y) ==
    \/ x.donor_id < y.donor_id
    \/ /\ x.donor_id = y.donor_id
       /\ \/ x.amount < y.amount
          \/ x.amount = y.amount /\ ~BinaryLess(x.date, y.date)

\* no file, one file, or every file cannot be opened
UnwritableInputs(year) ==
    LET ids == {LetterRows(year)[k].id : k \in DOMAIN LetterRows(year)}
    IN {{}, ids} \cup {{i} : i \in ids}

LettersInit ==
    /\ \E n \in 0..MaxLetterDonors : donors \in [1..n -> LetterDonors]
    /\ donorsSeq = Cardinality(DOMAIN donors)
    /\ \E m \in 0..MaxLetterDonations :
          /\ donations \in [1..m -> {DonationRow(i, d.amount, d.date, Cash) :
                                        i \in 1..MaxLetterDonors, d \in LetterDonations}]
          /\ \A k \in 1..(m - 1) : EnteredBefore(donations[k], donations[k + 1])
    /\ donationsSeq = Cardinality(DOMAIN donations)
    /\ organization = [i \in {OrganizationKey} |-> OrganizationRow(<<"A">>, <<"a">>)]
    /\ table = <<>>
    /\ last = [op |-> "none"]
    /\ assignedIds = Ascending(DOMAIN donors)
    /\ deletedDonors = {}
    /\ orgWritten = <<[name |-> <<"A">>, address |-> <<"a">>]>>
    /\ window = NoWindow
    /\ ran = NoSlot
    /\ letters = NoFiles
    /\ letterLog = <<>>
    /\ dialog = NoDialog

LettersNext ==
    /\ last.op = "none"
    /\ \E year \in YearInputs, fault \in BOOLEAN :
          \E unwritable \in UnwritableInputs(year) :
             generateDonationLetters(year, unwritable, fault)
    /\ UNCHANGED uiVars

SpecLetters == LettersInit /\ [][LettersNext]_vars

(***************************************************************************)
(* The main window.  `window` holds the fields of MainWindow that the      *)
(* navigation reads and writes:                                            *)
(*   donorIds          : the vector of donor ids (a sequence; the element  *)
(*                       at C++ index i is donorIds[i + 1])                *)
(*   currentDonorIndex : int, -1 when no donor is positioned               *)
(*   currentDonorId    : int, -1 when no donor is loaded                   *)
(*   firstButton, previousButton, nextButton, lastButton : isEnabled()     *)
(*   donationsTable    : the rowids of the donations shown                 *)
(* The line edits that display the loaded donor are not part of the model. *)
(* Each slot is one action; the reads a slot makes (getAllDonorIds,        *)
(* getDonorDetails, getDonationsForDonor) see the store as the slot's      *)
(* write left it.                                                          *)
(***************************************************************************)
\* int(a) < int(b)
SignedLess(a, b) == a < b

\* static_cast<size_t>(a) < static_cast<size_t>(b) for ints a and b: the
\* conversion adds 2^w to a negative value (w the width of size_t), so a
\* negative value is larger than every non-negative one
UnsignedLess(a, b) == IF (a < 0) = (b < 0) THEN a < b ELSE b < 0

\* buttons that lead to the first and the previous donor enabled at index 0 too
updateEnablingAtFirst(w) ==
    IF w.donorIds = <<>>
    THEN [w EXCEPT !.firstButton = FALSE, !.previousButton = FALSE,
                   !.nextButton = FALSE, !.lastButton = FALSE]
    ELSE [w EXCEPT !.firstButton = w.currentDonorIndex >= 0,
                   !.previousButton = w.currentDonorIndex >= 0,
                   !.nextButton = UnsignedLess(w.currentDonorIndex, Len(w.donorIds) - 1),
                   !.lastButton = UnsignedLess(w.currentDonorIndex, Len(w.donorIds) - 1)]

\* updateNavigationButtonStates(); donorIds.size() - 1 is computed in size_t
\* and is its largest value when the vector is empty
updateNavigationButtonStates(w) ==
    IF w.donorIds = <<>>
    THEN [w EXCEPT !.firstButton = FALSE, !.previousButton = FALSE,
                   !.nextButton = FALSE, !.lastButton = FALSE]
    ELSE [w EXCEPT !.firstButton = w.currentDonorIndex > 0,
                   !.previousButton = w.currentDonorIndex > 0,
                   !.nextButton = UnsignedLess(w.currentDonorIndex, Len(w.donorIds) - 1),
                   !.lastButton = UnsignedLess(w.currentDonorIndex, Len(w.donorIds) - 1)]

\* a find that gives the first position when there is no element equal to id
FindIndexOrFirst(ids, id) ==
    IF \E k \in DOMAIN ids : ids[k] = id
    THEN (CHOOSE k \in DOMAIN ids :
             ids[k] = id /\ \A j \in 1..(k - 1) : ids[j] # id) - 1
    ELSE 0

\* std::distance(begin, std::find(begin, end, id)): the C++ index of the first
\* element equal to id; ids.size() when there is none
FindIndex(ids, id) ==
    IF \E k \in DOMAIN ids : ids[k] = id
    THEN (CHOOSE k \in DOMAIN ids :
             ids[k] = id /\ \A j \in 1..(k - 1) : ids[j] # id) - 1
    ELSE Len(ids)

\* a refresh that adds the ids read to those the vector holds
populateAppending(w, allDonorIds) ==
    LET ids == w.donorIds \o allDonorIds
        it == FindIndex(ids, w.currentDonorId)
    IN updateNavigationButtonStates(
          [w EXCEPT !.donorIds = ids,
                    !.currentDonorIndex =
                       IF w.currentDonorId # -1
                       THEN IF it # Len(ids) THEN it ELSE -1
                       ELSE @])

\* a refresh that keeps the index when the current donor is gone
populateKeepingIndex(w, allDonorIds) ==
    LET it == FindIndex(allDonorIds, w.currentDonorId)
    IN updateNavigationButtonStates(
          [w EXCEPT !.donorIds = allDonorIds,
                    !.currentDonorIndex =
                       IF w.currentDonorId # -1 /\ it # Len(allDonorIds) THEN it ELSE @])

\* populateDonorIds(), getAllDonorIds() having returned allDonorIds
populateDonorIds(w, allDonorIds) ==
    LET it == FindIndex(allDonorIds, w.currentDonorId)
    IN updateNavigationButtonStates(
          [w EXCEPT !.donorIds = allDonorIds,
                    !.currentDonorIndex =
                       IF w.currentDonorId # -1
                       THEN IF it # Len(allDonorIds) THEN it ELSE -1
                       ELSE @])

\* a load that shows the donor without making it the current one
loadDonorKeepingId(w, id, found, shown) ==
    updateNavigationButtonStates([w EXCEPT !.donationsTable = shown])

\* loadDonor(id): `found` is what getDonorDetails(id, ...) returned, `shown`
\* the donations getDonationsForDonor(id, donationsTable) put in the table
loadDonor(w, id, found, shown) ==
    updateNavigationButtonStates(
       IF id # -1
       THEN IF found
            THEN [w EXCEPT !.currentDonorId = id, !.donationsTable = shown]
            ELSE [w EXCEPT !.currentDonorId = -1]
       ELSE [w EXCEPT !.currentDonorId = -1, !.donationsTable = {}])

\* the window as the constructor's member initialisers leave it; a
\* QPushButton is enabled when created
Constructed ==
    [open |-> TRUE, donorIds |-> <<>>, currentDonorIndex |-> -1,
     currentDonorId |-> -1, firstButton |-> TRUE, previousButton |-> TRUE,
     nextButton |-> TRUE, lastButton |-> TRUE, donationsTable |-> {}]

\* what a slot left behind for the observer: its name, the window before it
\* ran, and the window before and after each populateDonorIds() it made
Ran(slot, populated) == [slot |-> slot, before |-> window, populated |-> populated]

\* the store is left alone and no method that writes it is called
NoWrite ==
    /\ UNCHANGED <<donors, donorsSeq, donations, donationsSeq, organization,
                   assignedIds, deletedDonors, orgWritten, letters, letterLog>>
    /\ last' = [op |-> "none"]

\* tracker->searchDonors("", table, true) on the store the slot's write left;
\* when the statement cannot be prepared the table keeps its rows
RefreshTable(fault) ==
    IF fault THEN UNCHANGED table
    ELSE table' \in SearchedTables(<<>>, TRUE)'

\* loadFirstDonor() after its populateDonorIds() left window p, on the store
\* the slot's write left
PositionFirst(p) ==
    IF p.donorIds # <<>>
    THEN loadDonor([p EXCEPT !.currentDonorIndex = 0], p.donorIds[1],
                   HasDonor(donors', p.donorIds[1]),
                   DonationsOf(donations', p.donorIds[1]))
    ELSE loadDonor(p, -1, FALSE, {})

\* loadLastDonor() after its populateDonorIds() left window p, on the store
\* the slot's write left
PositionLast(p) ==
    IF p.donorIds # <<>>
    THEN loadDonor([p EXCEPT !.currentDonorIndex = Len(p.donorIds) - 1],
                   p.donorIds[Len(p.donorIds)],
                   HasDonor(donors', p.donorIds[Len(p.donorIds)]),
                   DonationsOf(donations', p.donorIds[Len(p.donorIds)]))
    ELSE loadDonor(p, -1, FALSE, {})

\* one populateDonorIds() call: the window before and after it
Populating(w, p) == [before |-> w, after |-> p]

\* MainWindow::MainWindow on the store as it is: populateDonorIds();
\* loadFirstDonor(); updateNavigationButtonStates(); searchDonors("", table, true)
MainWindow(fault) ==
    /\ NoWrite
    /\ \E ids \in {GetAllDonorIds} :
       \E w1 \in {populateDonorIds(Constructed, ids)} :
       \E p \in {populateDonorIds(w1, ids)} :
       \E w2 \in {PositionFirst(p)} :
          /\ window' = updateNavigationButtonStates(w2)
          /\ ran' = [slot |-> "MainWindow", before |-> Constructed,
                     populated |-> <<Populating(Constructed, w1), Populating(w1, p)>>]
    /\ IF fault THEN table' = <<>> ELSE table' \in SearchedTables(<<>>, TRUE)

\* an addDonor slot that refreshes the table and not the ids
addDonorRefreshingTableOnly(a, fault, searchFault) ==
    /\ addDonor(a, fault)
    /\ ran' = Ran("addDonor", <<>>)
    /\ UNCHANGED window
    /\ IF fault THEN UNCHANGED table ELSE RefreshTable(searchFault)

\* an addDonor slot that refreshes the ids and the table and loads nothing
addDonorWithoutLoad(a, fault, searchFault) ==
    /\ addDonor(a, fault)
    /\ IF fault
       THEN /\ UNCHANGED <<table, window>>
            /\ ran' = Ran("addDonor", <<>>)
       ELSE /\ RefreshTable(searchFault)
            /\ \E ids \in {GetAllDonorIds'} :
               \E w1 \in {populateDonorIds(window, ids)} :
                  /\ window' = w1
                  /\ ran' = Ran("addDonor", <<Populating(window, w1)>>)

\* MainWindow::addDonor(), the dialog accepted with valid fields a
MainWindow_addDonor(a, fault, searchFault) ==
    /\ addDonor(a, fault)
    /\ IF fault
       THEN /\ UNCHANGED <<table, window>>
            /\ ran' = Ran("addDonor", <<>>)
       ELSE /\ RefreshTable(searchFault)
            /\ \E ids \in {GetAllDonorIds'} :
               \E w1 \in {populateDonorIds(window, ids)} :
               \E p \in {populateDonorIds(w1, ids)} :
                  /\ window' = PositionLast(p)
                  /\ ran' = Ran("addDonor", <<Populating(window, w1), Populating(w1, p)>>)

\* MainWindow::editDonor(), a donor loaded and the dialog accepted with valid
\* fields a
editDonor(a, fault, searchFault) ==
    /\ window.currentDonorId # -1
    /\ GetDonorDetails(window.currentDonorId).found
    /\ updateDonor(window.currentDonorId, a, fault)
    /\ ran' = Ran("editDonor", <<>>)
    /\ IF fault
       THEN UNCHANGED <<table, window>>
       ELSE /\ RefreshTable(searchFault)
            /\ window' = loadDonor(window, window.currentDonorId,
                                   HasDonor(donors', window.currentDonorId),
                                   DonationsOf(donations', window.currentDonorId))

\* a deleteDonor slot that reads the ids again and leaves the index where it was
deleteDonorKeepingIndex(fault, searchFault) ==
    /\ window.currentDonorId # -1
    /\ deleteDonor(window.currentDonorId, fault)
    /\ ran' = Ran("deleteDonor", <<>>)
    /\ IF fault
       THEN UNCHANGED <<table, window>>
       ELSE /\ RefreshTable(searchFault)
            /\ window' = updateNavigationButtonStates(
                             [window EXCEPT !.donorIds = GetAllDonorIds',
                                            !.currentDonorId = -1])

\* a deleteDonor slot that leaves the window as it was
deleteDonorWithoutRefresh(fault, searchFault) ==
    /\ window.currentDonorId # -1
    /\ deleteDonor(window.currentDonorId, fault)
    /\ ran' = Ran("deleteDonor", <<>>)
    /\ UNCHANGED window
    /\ IF fault THEN UNCHANGED table ELSE RefreshTable(searchFault)

\* MainWindow::deleteDonor(), a donor loaded and the question answered Yes
MainWindow_deleteDonor(fault, searchFault) ==
    /\ window.currentDonorId # -1
    /\ deleteDonor(window.currentDonorId, fault)
    /\ IF fault
       THEN /\ UNCHANGED <<table, window>>
            /\ ran' = Ran("deleteDonor", <<>>)
       ELSE /\ RefreshTable(searchFault)
            /\ \E ids \in {GetAllDonorIds'} :
               \E w1 \in {populateDonorIds(window, ids)} :
               \E p \in {populateDonorIds(w1, ids)} :
                  /\ window' = PositionFirst(p)
                  /\ ran' = Ran("deleteDonor", <<Populating(window, w1), Populating(w1, p)>>)

\* MainWindow::addDonation(), a donor loaded and the dialog accepted; the
\* dialog's donor id field is pre-filled and can be edited
MainWindow_addDonation(donorId, d, fault) ==
    /\ donationsSeq < MaxWindowDonations
    /\ window.currentDonorId # -1
    /\ addDonation(donorId, d, fault)
    /\ UNCHANGED table
    /\ ran' = Ran("addDonation", <<>>)
    /\ window' = IF fault THEN window
                 ELSE [window EXCEPT !.donationsTable =
                          DonationsOf(donations', window.currentDonorId)]

\* MainWindow::editDonation(), row `id` of the donations table selected and
\* the dialog accepted
editDonation(id, donorId, d, fault) ==
    /\ id \in window.donationsTable
    /\ updateDonation(id, donorId, d, fault)
    /\ UNCHANGED table
    /\ ran' = Ran("editDonation", <<>>)
    /\ window' = IF fault THEN window
                 ELSE [window EXCEPT !.donationsTable =
                          DonationsOf(donations', window.currentDonorId)]

\* MainWindow::deleteDonation(), row `id` of the donations table selected and
\* the question answered Yes
MainWindow_deleteDonation(id, fault) ==
    /\ id \in window.donationsTable
    /\ deleteDonation(id, fault)
    /\ UNCHANGED table
    /\ ran' = Ran("deleteDonation", <<>>)
    /\ window' = IF fault THEN window
                 ELSE [window EXCEPT !.donationsTable =
                          DonationsOf(donations', window.currentDonorId)]

\* MainWindow::setOrganization(), the dialog accepted
setOrganization(name, address, fault) ==
    /\ setOrganizationDetails(name, address, fault)
    /\ UNCHANGED <<table, window>>
    /\ ran' = Ran("setOrganization", <<>>)

\* MainWindow::search()
search(searchTerm, fault) ==
    /\ NoWrite
    /\ UNCHANGED window
    /\ ran' = Ran("search", <<>>)
    /\ IF fault THEN UNCHANGED table
       ELSE table' \in SearchedTables(searchTerm, FALSE)

\* MainWindow::onDonorTableItemClicked(item), item in row `row` of the table
onDonorTableItemClicked(row) ==
    /\ row \in DOMAIN table
    /\ NoWrite
    /\ UNCHANGED table
    /\ ran' = Ran("onDonorTableItemClicked", <<>>) @@ [donorId |-> table[row].id]
    /\ \E donorId \in {table[row].id} :
       \E it \in {FindIndex(window.donorIds, donorId)} :
          window' =
             IF it # Len(window.donorIds)
             THEN loadDonor([window EXCEPT !.currentDonorIndex = it], donorId,
                            HasDonor(donors', donorId),
                            DonationsOf(donations', donorId))
             ELSE window

\* MainWindow::loadFirstDonor()
loadFirstDonor ==
    /\ NoWrite
    /\ UNCHANGED table
    /\ \E p \in {populateDonorIds(window, GetAllDonorIds)} :
          /\ window' = PositionFirst(p)
          /\ ran' = Ran("loadFirstDonor", <<Populating(window, p)>>)

\* a previous that loads the donor before the current one and leaves the index
loadPreviousDonorKeepingIndex ==
    /\ NoWrite
    /\ UNCHANGED table
    /\ ran' = Ran("loadPreviousDonor", <<>>)
    /\ window' =
          IF window.currentDonorIndex > 0
          THEN LET i == window.currentDonorIndex - 1
               IN loadDonor(window, window.donorIds[i + 1],
                            HasDonor(donors', window.donorIds[i + 1]),
                            DonationsOf(donations', window.donorIds[i + 1]))
          ELSE window

\* MainWindow::loadPreviousDonor()
loadPreviousDonor ==
    /\ NoWrite
    /\ UNCHANGED table
    /\ ran' = Ran("loadPreviousDonor", <<>>)
    /\ window' =
          IF window.currentDonorIndex > 0
          THEN LET i == window.currentDonorIndex - 1
               IN loadDonor([window EXCEPT !.currentDonorIndex = i],
                            window.donorIds[i + 1],
                            HasDonor(donors', window.donorIds[i + 1]),
                            DonationsOf(donations', window.donorIds[i + 1]))
          ELSE window

\* a next that goes round to the first donor from the last
loadNextDonorWrapping ==
    /\ NoWrite
    /\ UNCHANGED table
    /\ ran' = Ran("loadNextDonor", <<>>)
    /\ window' =
          IF window.donorIds # <<>>
          THEN LET i == (window.currentDonorIndex + 1) % Len(window.donorIds)
               IN loadDonor([window EXCEPT !.currentDonorIndex = i],
                            window.donorIds[i + 1],
                            HasDonor(donors', window.donorIds[i + 1]),
                            DonationsOf(donations', window.donorIds[i + 1]))
          ELSE window

\* MainWindow::loadNextDonor()
loadNextDonor ==
    /\ NoWrite
    /\ UNCHANGED table
    /\ ran' = Ran("loadNextDonor", <<>>)
    /\ window' =
          IF UnsignedLess(window.currentDonorIndex, Len(window.donorIds) - 1)
          THEN LET i == window.currentDonorIndex + 1
               IN loadDonor([window EXCEPT !.currentDonorIndex = i],
                            window.donorIds[i + 1],
                            HasDonor(donors', window.donorIds[i + 1]),
                            DonationsOf(donations', window.donorIds[i + 1]))
          ELSE window

\* MainWindow::loadLastDonor()
loadLastDonor ==
    /\ NoWrite
    /\ UNCHANGED table
    /\ \E p \in {populateDonorIds(window, GetAllDonorIds)} :
          /\ window' = PositionLast(p)
          /\ ran' = Ran("loadLastDonor", <<Populating(window, p)>>)

(***************************************************************************)
(* The application: started on a new database, then any slot in any order; *)
(* it may be closed and started again on the database it left.  The        *)
(* refresh of the donor table is let fail after a delete, where it shows:  *)
(* the table then still lists the donor that was deleted.                  *)
(***************************************************************************)
\* fields the donor dialog lets through
WindowDonorInputs == {[Ann EXCEPT !.email = ValidEmail]}
EditedDonorInputs == {[Bob EXCEPT !.email = <<"b", "@", "a", ".", "b", "b">>]}
WindowOrgInputs == {[name |-> <<"A">>, address |-> <<"a">>]}
WindowTermInputs == {<<"a">>}

WindowInit ==
    /\ donors = NoRows
    /\ donorsSeq = 0
    /\ donations = NoRows
    /\ donationsSeq = 0
    /\ organization = NoRows
    /\ table = <<>>
    /\ last = [op |-> "none"]
    /\ assignedIds = <<>>
    /\ deletedDonors = {}
    /\ orgWritten = <<>>
    /\ window = [Constructed EXCEPT !.firstButton = FALSE, !.previousButton = FALSE,
                                    !.nextButton = FALSE, !.lastButton = FALSE]
    /\ ran = [slot |-> "MainWindow", before |-> Constructed,
              populated |-> <<[before |-> Constructed,
                               after |-> populateDonorIds(Constructed, <<>>)],
                              [before |-> populateDonorIds(Constructed, <<>>),
                               after |-> populateDonorIds(Constructed, <<>>)]>>]
    /\ letters = NoFiles
    /\ letterLog = <<>>
    /\ dialog = NoDialog

WindowNext ==
    \/ \E fault \in BOOLEAN : MainWindow(fault) /\ UNCHANGED dialog
    \/ \E a \in WindowDonorInputs, fault \in BOOLEAN, searchFault \in {FALSE} :
          MainWindow_addDonor(a, fault, searchFault) /\ UNCHANGED dialog
    \/ \E a \in EditedDonorInputs, fault \in BOOLEAN, searchFault \in {FALSE} :
          editDonor(a, fault, searchFault) /\ UNCHANGED dialog
    \/ \E fault \in BOOLEAN, searchFault \in BOOLEAN :
          MainWindow_deleteDonor(fault, searchFault) /\ UNCHANGED dialog
    \/ \E donorId \in DonorIdInputs, d \in DonationInputs, fault \in BOOLEAN :
          MainWindow_addDonation(donorId, d, fault) /\ UNCHANGED dialog
    \/ \E id \in window.donationsTable, donorId \in DonorIdInputs,
          d \in DonationInputs, fault \in BOOLEAN :
          editDonation(id, donorId, d, fault) /\ UNCHANGED dialog
    \/ \E id \in window.donationsTable, fault \in BOOLEAN :
          MainWindow_deleteDonation(id, fault) /\ UNCHANGED dialog
    \/ \E o \in WindowOrgInputs, fault \in BOOLEAN :
          setOrganization(o.name, o.address, fault) /\ UNCHANGED dialog
    \/ \E searchTerm \in WindowTermInputs, fault \in BOOLEAN :
          search(searchTerm, fault) /\ UNCHANGED dialog
    \/ \E row \in DOMAIN table : onDonorTableItemClicked(row) /\ UNCHANGED dialog
    \/ loadFirstDonor /\ UNCHANGED dialog
    \/ loadPreviousDonor /\ UNCHANGED dialog
    \/ loadNextDonor /\ UNCHANGED dialog
    \/ loadLastDonor /\ UNCHANGED dialog

SpecWindow == WindowInit /\ [][WindowNext]_vars

(***************************************************************************)
(* The dialogs.  A slot that asks for input creates a dialog on its stack, *)
(* fills some of its fields and calls exec(), which returns when the user  *)
(* presses Save (connected to QDialog::accept) or Cancel (connected to     *)
(* QDialog::reject); the dialog is modal, so no other slot of the window   *)
(* runs meanwhile.  The slot then tests                                    *)
(*     dialog.exec() == QDialog::Accepted && dialog.validateInputs()       *)
(* and goes on to write.  A field of a dialog holds a text.                *)
(***************************************************************************)
\* the characters the classes of emailRegex name
IsLetter(c) == c \in {"a", "b", "A", "B"}
IsDigit(c) == c \in {"0", "1", "2", "3", "4", "5", "6", "7", "8", "9"}
\* [A-Z0-9._%+-], case-insensitive
LocalChar(c) == IsLetter(c) \/ IsDigit(c) \/ c \in {".", "_", "%", "+", "-"}
\* [A-Z0-9.-], case-insensitive
DomainChar(c) == IsLetter(c) \/ IsDigit(c) \/ c \in {".", "-"}
\* \w: what \b tells from the rest
WordChar(c) == IsLetter(c) \/ IsDigit(c) \/ c = "_"

\* \b between position i - 1 and position i of text
WordBoundary(text, i) ==
    (i - 1 \in DOMAIN text /\ WordChar(text[i - 1]))
       # (i \in DOMAIN text /\ WordChar(text[i]))

\* \b[A-Z0-9._%+-]+@[A-Z0-9.-]+\.[A-Z]{2,4}\b matches text[from..to]
emailRegexMatches(text, from, to) ==
    /\ WordBoundary(text, from)
    /\ WordBoundary(text, to + 1)
    /\ \E at \in (from + 1)..(to - 4) :
       \E dot \in (at + 2)..(to - 2) :
          /\ text[at] = "@"
          /\ text[dot] = "."
          /\ to - dot \in 2..4
          /\ \A k \in from..(at - 1) : LocalChar(text[k])
          /\ \A k \in (at + 1)..(dot - 1) : DomainChar(text[k])
          /\ \A k \in (dot + 1)..to : IsLetter(text[k])

\* emailRegex.match(text).hasMatch(): the pattern is searched for in the text
emailRegexHasMatch(text) ==
    \E from \in 1..Len(text) : \E to \in from..Len(text) :
       emailRegexMatches(text, from, to)

\* the value of a decimal digit
DigitValue(c) ==
    CASE c = "0" -> 0 [] c = "1" -> 1 [] c = "2" -> 2 [] c = "3" -> 3
      [] c = "4" -> 4 [] c = "5" -> 5 [] c = "6" -> 6 [] c = "7" -> 7
      [] c = "8" -> 8 [] c = "9" -> 9

\* the number a text of digits writes
RECURSIVE DigitsValue(_)
DigitsValue(s) ==
    IF s = <<>> THEN 0
    ELSE 10 * DigitsValue(SubSeq(s, 1, Len(s) - 1)) + DigitValue(s[Len(s)])

IsNumber(s) == s # <<>> /\ \A k \in DOMAIN s : IsDigit(s[k])

\* QString::toInt(): 0 when the text is not a number
toInt(s) == IF IsNumber(s) THEN DigitsValue(s) ELSE 0

\* QString::indexOf(sep): the first position, counted from 1, at which sep
\* occurs in s; 0 when it does not occur
indexOf(s, sep) ==
    LET found == {i \in 1..(Len(s) - Len(sep) + 1) :
                     SubSeq(s, i, i + Len(sep) - 1) = sep}
    IN IF found = {} THEN 0 ELSE CHOOSE i \in found : \A j \in found : i <= j

\* QString::split(sep, Qt::SkipEmptyParts): the text is cut at each occurrence
\* of sep, found from left to right, and the empty pieces are dropped
RECURSIVE split(_, _)
split(s, sep) ==
    LET i == indexOf(s, sep)
    IN IF i = 0 THEN (IF s = <<>> THEN <<>> ELSE <<s>>)
       ELSE (IF i = 1 THEN <<>> ELSE <<SubSeq(s, 1, i - 1)>>)
               \o split(SubSeq(s, i + Len(sep), Len(s)), sep)

\* the text of the amount field as toDouble() reads it, in cents: digits,
\* then at most a point and up to two digits
amountCents(s) ==
    LET point == indexOf(s, <<".">>)
        whole == IF point = 0 THEN s ELSE SubSeq(s, 1, point - 1)
        frac == IF point = 0 THEN <<>> ELSE SubSeq(s, point + 1, Len(s))
    IN 100 * DigitsValue(whole)
          + (IF Len(frac) = 1 THEN 10 * DigitsValue(frac) ELSE DigitsValue(frac))

\* amountEdit->hasAcceptableInput() under QDoubleValidator(0.00, 10000000.00, 2)
\* in standard notation: a number with at most two decimals within the range
hasAcceptableInput(s) ==
    LET point == indexOf(s, <<".">>)
        whole == IF point = 0 THEN s ELSE SubSeq(s, 1, point - 1)
        frac == IF point = 0 THEN <<>> ELSE SubSeq(s, point + 1, Len(s))
    IN /\ IsNumber(whole)
       /\ \A k \in DOMAIN frac : IsDigit(frac[k])
       /\ Len(frac) <= 2
       /\ amountCents(s) <= 1000000000

\* DonorDialog: the texts of its line edits as the constructor leaves them
BlankDonorFields ==
    [id |-> <<>>, firstName |-> <<>>, lastName |-> <<>>, street |-> <<>>,
     city |-> <<>>, state |-> <<>>, zip |-> <<>>, country |-> <<>>,
     phone |-> <<>>, email |-> <<>>]

\* DonorDialog::validateInputs()
DonorDialog_validateInputs(f) ==
    IF \/ f.firstName = <<>> \/ f.lastName = <<>> \/ f.street = <<>>
       \/ f.city = <<>> \/ f.state = <<>> \/ f.zip = <<>>
       \/ f.country = <<>> \/ f.phone = <<>> \/ f.email = <<>>
    THEN FALSE
    ELSE emailRegexHasMatch(f.email)

\* the nine texts a slot passes on to addDonor / updateDonor
DonorArguments(f) ==
    [firstName |-> f.firstName, lastName |-> f.lastName, street |-> f.street,
     city |-> f.city, state |-> f.state, zip |-> f.zip, country |-> f.country,
     phone |-> f.phone, email |-> f.email]

\* DonationDialog: the date edit starts at QDate::currentDate()
currentDate == Date2024
BlankDonationFields ==
    [id |-> <<>>, donorId |-> <<>>, amount |-> <<>>, date |-> currentDate,
     paymentMethod |-> <<>>]

\* DonationDialog::validateInputs(); the text of a QDateEdit is never empty
DonationDialog_validateInputs(f) ==
    IF \/ f.donorId = <<>> \/ f.amount = <<>> \/ f.date = <<>>
       \/ f.paymentMethod = <<>>
    THEN FALSE
    ELSE hasAcceptableInput(f.amount)

\* what a slot passes on to addDonation / updateDonation besides the ids
DonationArguments(f) ==
    [amount |-> amountCents(f.amount), date |-> f.date,
     paymentMethod |-> f.paymentMethod]

\* OrganizationDialog: the texts of its line edits as the constructor leaves them
BlankOrganizationFields ==
    [name |-> <<>>, street |-> <<>>, city |-> <<>>, state |-> <<>>,
     zip |-> <<>>, country |-> <<>>]

\* OrganizationDialog::validateInputs()
OrganizationDialog_validateInputs(f) ==
    ~(\/ f.name = <<>> \/ f.street = <<>> \/ f.city = <<>>
      \/ f.state = <<>> \/ f.zip = <<>> \/ f.country = <<>>)

\* setOrganization: street + ", " + city + ", " + state + " " + zip + ", " + country
combinedAddress(f) ==
    f.street \o <<",", " ">> \o f.city \o <<",", " ">> \o f.state \o <<" ">>
       \o f.zip \o <<",", " ">> \o f.country

\* setOrganization: the fields of the dialog after the pre-fill from what
\* getOrganizationDetails returned
prefilledOrganization(details) ==
    IF details.found
    THEN LET parts == split(details.address, <<",", " ">>)
         IN IF Len(parts) >= 4
            THEN LET stateZip == split(parts[3], <<" ">>)
                 IN [name |-> details.name, street |-> parts[1], city |-> parts[2],
                     state |-> IF Len(stateZip) = 2 THEN stateZip[1] ELSE parts[3],
                     zip |-> IF Len(stateZip) = 2 THEN stateZip[2] ELSE <<>>,
                     country |-> parts[4]]
            ELSE [BlankOrganizationFields EXCEPT !.street = details.address,
                                                 !.name = details.name]
    ELSE BlankOrganizationFields

\* a slot up to dialog.exec(): the dialog is created, its fields are set and
\* it is shown; nothing of the store or the window is written
exec(kind, slot, fields) ==
    /\ window.open /\ ~dialog.open
    /\ dialog' = [kind |-> kind, open |-> TRUE, slot |-> slot, fields |-> fields,
                  result |-> "Rejected"]
    /\ UNCHANGED <<donors, donorsSeq, donations, donationsSeq, organization,
                   table, last, assignedIds, deletedDonors, orgWritten,
                   window, ran, letters, letterLog>>

\* MainWindow::addDonor() up to dialog.exec()
addDonor_exec ==
    /\ donorsSeq < MaxDialogDonors
    /\ exec("DonorDialog", "addDonor", BlankDonorFields)

\* MainWindow::editDonor() up to dialog.exec(), a donor loaded
editDonor_exec ==
    /\ window.currentDonorId # -1
    /\ GetDonorDetails(window.currentDonorId).found
    /\ LET d == GetDonorDetails(window.currentDonorId)
       IN exec("DonorDialog", "editDonor",
               [id |-> to_string(window.currentDonorId),
                firstName |-> d.firstName, lastName |-> d.lastName,
                street |-> d.street, city |-> d.city, state |-> d.state,
                zip |-> d.zip, country |-> d.country, phone |-> d.phone,
                email |-> d.email])

\* MainWindow::addDonation() up to dialog.exec(), a donor loaded
addDonation_exec ==
    /\ donationsSeq < MaxWindowDonations
    /\ window.currentDonorId # -1
    /\ exec("DonationDialog", "addDonation",
            [BlankDonationFields EXCEPT !.donorId = to_string(window.currentDonorId)])

\* MainWindow::editDonation() up to dialog.exec(), row `id` of the donations
\* table selected
editDonation_exec(id) ==
    /\ id \in window.donationsTable
    /\ id \in DOMAIN donations
    /\ exec("DonationDialog", "editDonation",
            [id |-> to_string(id), donorId |-> to_string(donations[id].donor_id),
             amount |-> number_f2(donations[id].amount),
             date |-> donations[id].date,
             paymentMethod |-> donations[id].payment_method])

\* MainWindow::setOrganization() up to dialog.exec()
setOrganization_exec ==
    exec("OrganizationDialog", "setOrganization",
         prefilledOrganization(GetOrganizationDetails))

\* the user edits the fields of the open dialog: they hold the texts f
typeText(f) ==
    /\ dialog.open
    /\ dialog' = [dialog EXCEPT !.fields = f]
    /\ UNCHANGED <<donors, donorsSeq, donations, donationsSeq, organization,
                   table, last, assignedIds, deletedDonors, orgWritten,
                   window, ran, letters, letterLog>>

\* the slot returns without calling the tracker
ReturnsAtOnce ==
    /\ NoWrite
    /\ UNCHANGED <<table, window>>
    /\ ran' = Ran(dialog.slot, <<>>)

\* Cancel: QDialog::reject() ends exec() with QDialog::Rejected
reject ==
    /\ dialog.open
    /\ dialog' = [dialog EXCEPT !.open = FALSE, !.result = "Rejected"]
    /\ ReturnsAtOnce

\* Save: QDialog::accept() hides the dialog and ends exec() with
\* QDialog::Accepted, whatever the fields hold
accept ==
    /\ dialog.open
    /\ dialog' = [dialog EXCEPT !.open = FALSE, !.result = "Accepted"]

\* MainWindow::addDonor() from Save on
addDonor_accept(fault) ==
    /\ accept
    /\ dialog.slot = "addDonor"
    /\ IF DonorDialog_validateInputs(dialog.fields)
       THEN MainWindow_addDonor(DonorArguments(dialog.fields), fault, FALSE)
       ELSE ReturnsAtOnce

\* MainWindow::editDonor() from Save on
editDonor_accept(fault) ==
    /\ accept
    /\ dialog.slot = "editDonor"
    /\ IF DonorDialog_validateInputs(dialog.fields)
       THEN editDonor(DonorArguments(dialog.fields), fault, FALSE)
       ELSE ReturnsAtOnce

\* MainWindow::addDonation() from Save on
addDonation_accept(fault) ==
    /\ accept
    /\ dialog.slot = "addDonation"
    /\ IF DonationDialog_validateInputs(dialog.fields)
       THEN MainWindow_addDonation(toInt(dialog.fields.donorId),
                                   DonationArguments(dialog.fields), fault)
       ELSE ReturnsAtOnce

\* MainWindow::editDonation() from Save on
editDonation_accept(fault) ==
    /\ accept
    /\ dialog.slot = "editDonation"
    /\ IF DonationDialog_validateInputs(dialog.fields)
       THEN editDonation(toInt(dialog.fields.id), toInt(dialog.fields.donorId),
                         DonationArguments(dialog.fields), fault)
       ELSE ReturnsAtOnce

\* MainWindow::setOrganization() from Save on
setOrganization_accept(fault) ==
    /\ accept
    /\ dialog.slot = "setOrganization"
    /\ IF OrganizationDialog_validateInputs(dialog.fields)
       THEN setOrganization(dialog.fields.name, combinedAddress(dialog.fields), fault)
       ELSE ReturnsAtOnce

(***************************************************************************)
(* The window with its dialogs: a slot that asks for input is two steps,   *)
(* up to exec() and from Save or Cancel on, with the user's typing in      *)
(* between; while a dialog is open no other slot runs.  The texts typed    *)
(* are a valid input of each dialog and inputs with one field changed.     *)
(***************************************************************************)
ValidDonorFields == [Ann EXCEPT !.email = ValidEmail]
DonorFieldInputs ==
    {ValidDonorFields,
     [ValidDonorFields EXCEPT !.firstName = <<>>],
     [ValidDonorFields EXCEPT !.email = EmailWithoutDomain],
     [ValidDonorFields EXCEPT !.email = EmailAfterName]}

ValidDonationFields ==
    [amount |-> <<"1", "0">>, date |-> currentDate, paymentMethod |-> Cash]
\* an amount above the validator's range
AmountOutOfRange == <<"2", "0", "0", "0", "0", "0", "0", "0">>
DonationFieldInputs ==
    {ValidDonationFields,
     [ValidDonationFields EXCEPT !.amount = <<>>],
     [ValidDonationFields EXCEPT !.amount = AmountOutOfRange],
     [ValidDonationFields EXCEPT !.paymentMethod = <<>>]}

ValidOrganizationFields ==
    [name |-> <<"A">>, street |-> <<"a">>, city |-> <<"b">>, state |-> <<"A">>,
     zip |-> <<"1">>, country |-> <<"B">>]
OrganizationFieldInputs ==
    {ValidOrganizationFields,
     [ValidOrganizationFields EXCEPT !.zip = <<>>],
     [ValidOrganizationFields EXCEPT !.state = <<"A", " ", "B">>],
     [ValidOrganizationFields EXCEPT !.street = <<"a", ",", " ", "b">>]}

\* the texts the open dialog may be left with: the id fields are read-only,
\* the donor id of a donation is kept or emptied
TypedInputs ==
    CASE dialog.kind = "DonorDialog" ->
            {g @@ [id |-> dialog.fields.id] : g \in DonorFieldInputs}
      [] dialog.kind = "DonationDialog" ->
            {g @@ [id |-> dialog.fields.id, donorId |-> d] :
                g \in DonationFieldInputs, d \in {dialog.fields.donorId, <<>>}}
      [] dialog.kind = "OrganizationDialog" -> OrganizationFieldInputs
      [] OTHER -> {}

DialogsNext ==
    \/ addDonor_exec
    \/ editDonor_exec
    \/ addDonation_exec
    \/ \E id \in window.donationsTable : editDonation_exec(id)
    \/ setOrganization_exec
    \/ \E f \in TypedInputs : typeText(f)
    \/ reject
    \/ \E fault \in BOOLEAN : addDonor_accept(fault)
    \/ \E fault \in BOOLEAN : editDonor_accept(fault)
    \/ \E fault \in BOOLEAN : addDonation_accept(fault)
    \/ \E fault \in BOOLEAN : editDonation_accept(fault)
    \/ \E fault \in BOOLEAN : setOrganization_accept(fault)
    \/ ~dialog.open /\ loadPreviousDonor /\ dialog' = NoDialog
    \/ ~dialog.open /\ loadNextDonor /\ dialog' = NoDialog

SpecDialogs == WindowInit /\ [][DialogsNext]_vars

(***************************************************************************)
(* Properties.                                                             *)
(***************************************************************************)

\* C1: after a successful deleteDonor(D) of a donor D the store holds no
\* donation whose donor_id is D.
C1_DeleteDonorCascades ==
    (last.op = "deleteDonor" /\ last.ok /\ last.existed)
        => GetDonationsForDonor(last.id) = {}

\* C2: in every reachable state every stored donation's donor_id is the
\* identifier of a donor that exists.
C2_NoOrphanDonation ==
    \A d \in DOMAIN donations : donations[d].donor_id \in DOMAIN donors

C4_NotFoundReported ==
    [][(/\ last'.op \in {"updateDonor", "deleteDonor", "updateDonation", "deleteDonation"}
        /\ ~last'.fault
        /\ ~last'.existed)
          => (~last'.ok /\ UNCHANGED <<donors, donations, organization>>)]_vars

\* C5: after a successful addDonor with field values F, getDonorDetails on
\* the identifier assigned returns exactly F for all nine fields, and what
\* getDonorDetails returns for a donor changes only when that donor is
\* updated or deleted.
C5_AddDonorRoundTrip ==
    /\ []((last.op = "addDonor" /\ last.ok)
             => GetDonorDetails(last.id) = Found(last.args))
    /\ [][\A id \in DOMAIN donors :
             GetDonorDetails(id)' # GetDonorDetails(id)
                => /\ last'.op \in {"updateDonor", "deleteDonor"}
                   /\ last'.ok
                   /\ last'.id = id]_vars

C5_Witness ==
    /\ last.op = "addDonor" /\ last.ok /\ last.args = Ann
    /\ GetDonorDetails(last.id).found

\* C6: after a successful deleteDonor(N) of an existing donor N,
\* getDonorDetails(N) reports not-found and N is absent from getAllDonorIds()
\* in every later state.
C6_DeletedStaysDeleted ==
    \A n \in deletedDonors :
       /\ ~GetDonorDetails(n).found
       /\ \A i \in DOMAIN GetAllDonorIds : GetAllDonorIds[i] # n

C6_Witness ==
    /\ last.op = "addDonor" /\ last.ok
    /\ deletedDonors # {}

\* C7: every successful addDonor assigns an identifier that no donor has or
\* has ever had: the identifiers assigned are pairwise different.
C7_DonorIdsNeverReused ==
    \A i, j \in DOMAIN assignedIds : i # j => assignedIds[i] # assignedIds[j]

C7_Witness ==
    /\ Len(assignedIds) = 2
    /\ assignedIds[1] \in deletedDonors
    /\ DOMAIN donors = {assignedIds[2]}

\* C8: after any non-empty sequence of successful setOrganizationDetails
\* calls the store holds exactly one organization record and
\* getOrganizationDetails returns the (name, address) of the most recent
\* call; before the first call it reports not-set.
C8_OrganizationRoundTrip ==
    IF orgWritten = <<>>
    THEN ~GetOrganizationDetails.found
    ELSE /\ Cardinality(DOMAIN organization) = 1
         /\ GetOrganizationDetails =
               [found |-> TRUE, name |-> orgWritten[1].name,
                address |-> orgWritten[1].address]

C8_Witness ==
    /\ last.op = "setOrganizationDetails" /\ last.ok /\ last.existed
    /\ orgWritten # <<>>

\* t occurs in s as a run of consecutive characters
IsSubstring(t, s) ==
    \E i \in 0..(Len(s) - Len(t)) : \A k \in 1..Len(t) : s[i + k] = t[k]

\* the identifiers shown in the table
TableIds == {table[i].id : i \in DOMAIN table}

\* C9: for a non-empty term with includeAll false, searchDonors returns
\* exactly the donors for which the lower-cased term is a literal substring
\* of the lower-cased value of one of the eight searched columns, and the
\* same donors for every upper/lower-case variant of the term.
C9_SearchIsLiteralSubstring ==
    (/\ last.op = "searchDonors" /\ ~last.fault
     /\ ~last.includeAll /\ last.searchTerm # <<>>)
        => /\ TableIds =
                {id \in DOMAIN donors :
                    \E c \in SearchedColumns :
                       IsSubstring(toLower(last.searchTerm), toLower(donors[id][c]))}
           /\ \A t \in TermInputs :
                 toLower(t) = toLower(last.searchTerm)
                    => SelectMatching(t) = SelectMatching(last.searchTerm)

\* C10: when includeAll is true or the term is empty, searchDonors returns
\* every existing donor exactly once, ordered ascending by first name and
\* then by last name.
C10_SearchAllOrdered ==
    (/\ last.op = "searchDonors" /\ ~last.fault
     /\ (last.includeAll \/ last.searchTerm = <<>>))
        => /\ Len(table) = Cardinality(DOMAIN donors)
           /\ TableIds = DOMAIN donors
           /\ \A i \in DOMAIN table : table[i] = TableRow(table[i].id)
           /\ \A i, j \in DOMAIN table :
                 i < j =>
                    \/ BinaryLess(table[i].first_name, table[j].first_name)
                    \/ /\ table[i].first_name = table[j].first_name
                       /\ ~BinaryLess(table[j].last_name, table[i].last_name)

C10_Witness ==
    /\ last.op = "searchDonors" /\ ~last.fault
    /\ last.includeAll /\ last.searchTerm # <<>>
    /\ Len(table) = 2
    /\ table[1].id = 2
    /\ table[1].first_name # table[2].first_name

\* the first four characters of a date (all of it when it is shorter)
FirstFour(date) == [k \in 1..(IF Len(date) < 4 THEN Len(date) ELSE 4) |-> date[k]]

\* donation d counts for donor i in year: it is i's and its date starts with
\* the decimal text of year
CountsFor(d, i, year) ==
    /\ d \in DOMAIN donations
    /\ donations[d].donor_id = i
    /\ FirstFour(donations[d].date) = to_string(year)

\* the sum of the amounts of donations 1..n that count for donor i in year
RECURSIVE YearTotal(_, _, _)
YearTotal(i, year, n) ==
    IF n = 0 THEN 0
    ELSE YearTotal(i, year, n - 1)
           + (IF CountsFor(n, i, year) THEN donations[n].amount ELSE 0)

\* the donors that exist and have a donation that counts in year
Qualifying(year) ==
    {i \in DOMAIN donors : \E d \in DOMAIN donations : CountsFor(d, i, year)}

\* a run of generateDonationLetters produced this state
LettersRan == last.op = "generateDonationLetters" /\ ~last.fault

\* C11: generateDonationLetters(year) handles exactly the existing donors that
\* have a donation whose date starts with the decimal text of year, each
\* once, and the total it reports for a donor is the sum of the amounts of
\* exactly those donations of the donor, printed with two decimals.
C11_LetterTotals ==
    LettersRan =>
       /\ {letterLog[k].id : k \in DOMAIN letterLog} = Qualifying(last.year)
       /\ Len(letterLog) = Cardinality(Qualifying(last.year))
       /\ \A k \in DOMAIN letterLog :
             /\ letterLog[k].totalAmount
                   = YearTotal(letterLog[k].id, last.year, donationsSeq)
             /\ letterLog[k].text.total
                   = number_f2(YearTotal(letterLog[k].id, last.year, donationsSeq))
             /\ letterLog[k].opened
                   => letters[letterLog[k].fileName] \in
                         {letterLog[j].text :
                             j \in {x \in DOMAIN letterLog :
                                      /\ letterLog[x].opened
                                      /\ letterLog[x].fileName = letterLog[k].fileName}}

\* 10.00 + 25.50 in 2024 gives 35.50
C11_Witness ==
    /\ LettersRan /\ last.year = 2024 /\ last.ok
    /\ \E k \in DOMAIN letterLog :
          /\ letterLog[k].text.total = <<"3", "5", ".", "5", "0">>
          /\ letters[letterLog[k].fileName].total = <<"3", "5", ".", "5", "0">>

\* C12: a run in which every file is written leaves as many letter files as
\* there are donors with a donation matching the year.
C12_OneLetterPerDonor ==
    (LettersRan /\ last.ok)
        => Cardinality(DOMAIN letters) = Cardinality(Qualifying(last.year))

Cursor(w) == <<w.donorIds, w.currentDonorIndex, w.currentDonorId>>

\* id occurs in the sequence ids
InSequence(ids, id) == \E k \in DOMAIN ids : ids[k] = id

\* C14: after any adds and deletes, loadPreviousDonor at index 0 and
\* loadNextDonor at the last index (length - 1) leave the sequence, the index
\* and the current donor id as they were.
C14_NoOpAtEnds ==
    /\ (ran.slot = "loadPreviousDonor" /\ ran.before.currentDonorIndex = 0)
          => Cursor(window) = Cursor(ran.before)
    /\ (/\ ran.slot = "loadNextDonor"
        /\ ran.before.currentDonorIndex = Len(ran.before.donorIds) - 1)
          => Cursor(window) = Cursor(ran.before)

\* next at the last of two donors
C14_Witness ==
    /\ ran.slot = "loadNextDonor"
    /\ Len(ran.before.donorIds) = 2
    /\ ran.before.currentDonorIndex = 1
    /\ window.currentDonorId = ran.before.donorIds[2]

C16_FirstAndLast ==
    ran.slot \in {"loadFirstDonor", "loadLastDonor"}
       => /\ window.donorIds = GetAllDonorIds
          /\ IF window.donorIds # <<>>
             THEN /\ window.currentDonorIndex =
                        (IF ran.slot = "loadFirstDonor" THEN 0
                         ELSE Len(window.donorIds) - 1)
                  /\ window.currentDonorId =
                        window.donorIds[window.currentDonorIndex + 1]
             ELSE window.currentDonorId = -1 /\ window.currentDonorIndex = -1

C16_Witness ==
    /\ ran.slot = "loadLastDonor"
    /\ ran.before.currentDonorIndex = 0
    /\ window.currentDonorIndex = 1
    /\ window.currentDonorId = window.donorIds[2]

\* C17: a click on the row of donor id puts the index at id's position in
\* donorIds and makes id the current donor when id is in donorIds; when it is
\* not, the index, the current donor id and the sequence stay as they were.
C17_SelectById ==
    ran.slot = "onDonorTableItemClicked"
       => IF InSequence(ran.before.donorIds, ran.donorId)
          THEN /\ window.donorIds = ran.before.donorIds
               /\ window.currentDonorIndex \in 0..(Len(window.donorIds) - 1)
               /\ window.donorIds[window.currentDonorIndex + 1] = ran.donorId
               /\ window.currentDonorId = ran.donorId
          ELSE Cursor(window) = Cursor(ran.before)

C17_Witness ==
    /\ ran.slot = "onDonorTableItemClicked"
    /\ InSequence(ran.before.donorIds, ran.donorId)
    /\ ran.before.currentDonorId # ran.donorId
    /\ window.currentDonorId = ran.donorId

\* a click on a row of the table whose donor is not in donorIds
C17_NotInSequence ==
    /\ ran.slot = "onDonorTableItemClicked"
    /\ ~InSequence(ran.before.donorIds, ran.donorId)

\* the windows updateNavigationButtonStates has left: the window as it is and
\* the window after each populateDonorIds of the latest slot
UpdatedWindows == {window} \cup {ran.populated[k].after : k \in DOMAIN ran.populated}

\* C18 as stated: first and previous are enabled iff index > 0, next and last
\* iff index < length - 1, the none value -1 of the index included.
C18_ButtonsAsStated ==
    \A w \in UpdatedWindows :
       /\ w.firstButton <=> (w.currentDonorIndex > 0)
       /\ w.previousButton <=> (w.currentDonorIndex > 0)
       /\ w.nextButton <=> (w.currentDonorIndex < Len(w.donorIds) - 1)
       /\ w.lastButton <=> (w.currentDonorIndex < Len(w.donorIds) - 1)

\* C18: whenever updateNavigationButtonStates has run, first and previous are
\* enabled iff index > 0, and next and last are enabled iff a donor is
\* positioned (index >= 0) and index < length - 1; with the none value -1 of
\* the index next and last are disabled.
C18_ButtonsFollowIndex ==
    \A w \in UpdatedWindows :
       /\ w.firstButton <=> (w.currentDonorIndex > 0)
       /\ w.previousButton <=> (w.currentDonorIndex > 0)
       /\ w.nextButton <=> (/\ w.currentDonorIndex >= 0
                            /\ w.currentDonorIndex < Len(w.donorIds) - 1)
       /\ w.lastButton <=> (/\ w.currentDonorIndex >= 0
                            /\ w.currentDonorIndex < Len(w.donorIds) - 1)

\* no donor positioned while donors exist: next and last are disabled
C18_Witness ==
    \E w \in UpdatedWindows :
       /\ w.currentDonorIndex = -1
       /\ Len(w.donorIds) >= 2
       /\ ~w.nextButton /\ ~w.lastButton

AllDisabled(w) ==
    ~w.firstButton /\ ~w.previousButton /\ ~w.nextButton /\ ~w.lastButton

\* C19 as stated: all four navigation buttons are disabled iff the sequence
\* of donor ids is empty.
C19_AllDisabledIffEmpty ==
    \A w \in UpdatedWindows : AllDisabled(w) <=> (w.donorIds = <<>>)

\* C19: all four navigation buttons are disabled iff the sequence holds at
\* most one donor or no donor is positioned: they are disabled when it is
\* empty, and at least one is enabled when a donor is positioned among two
\* or more.
C19_AllDisabledIffNowhereToGo ==
    \A w \in UpdatedWindows :
       AllDisabled(w) <=> (Len(w.donorIds) <= 1 \/ w.currentDonorIndex = -1)

\* one donor exists and is loaded, and no button is enabled
C19_Witness ==
    /\ Len(window.donorIds) = 1
    /\ window.currentDonorIndex = 0
    /\ window.currentDonorId = window.donorIds[1]
    /\ AllDisabled(window)

\* the methods that write the store
StorageWrites ==
    {"addDonor", "updateDonor", "deleteDonor", "addDonation", "updateDonation",
     "deleteDonation", "setOrganizationDetails"}

\* C20: when the engine refuses the statement of a write, the method returns
\* false, every table is as before the call, and the main window's donorIds,
\* currentDonorIndex and currentDonorId are as before.
C20_FailedWriteChangesNothing ==
    [][(last'.op \in StorageWrites /\ last'.fault)
          => /\ ~last'.ok
             /\ UNCHANGED <<donors, donorsSeq, donations, donationsSeq, organization>>
             /\ Cursor(window') = Cursor(window)]_vars

\* a refused delete of the loaded donor, with a donation of it on record
C20_Witness ==
    /\ last.op = "deleteDonor" /\ last.fault /\ ~last.ok
    /\ ran.slot = "deleteDonor"
    /\ window.currentDonorId \in DOMAIN donors
    /\ window.donationsTable # {}

\* a successful updateDonor on a donor that existed has just returned
UpdatedDonor == last.op = "updateDonor" /\ ~last.fault /\ last.ok /\ last.existed

\* C24: after a successful updateDonor(id, F) on an existing donor,
\* getDonorDetails(id) returns exactly F for all nine fields, the donor keeps
\* its identifier, and every other donor and every donation is unchanged.
C24_UpdateReplacesAllFields ==
    [][UpdatedDonor' =>
          /\ (GetDonorDetails(last.id) = Found(last.args))'
          /\ DOMAIN donors' = DOMAIN donors
          /\ \A other \in DOMAIN donors \ {last'.id} : donors'[other] = donors[other]
          /\ donations' = donations /\ donationsSeq' = donationsSeq]_vars

\* the second of two donors, who has a donation, was given other values in
\* all nine fields
C24_Witness ==
    /\ UpdatedDonor /\ last.id = 2
    /\ DOMAIN donors = {1, 2}
    /\ donors[1] # donors[2]
    /\ \E d \in DOMAIN donations : donations[d].donor_id = 2

\* C23: populateDonorIds is idempotent: with no store mutation in between,
\* performing it twice in a row leaves donorIds, currentDonorIndex,
\* currentDonorId and the navigation button states exactly as after performing
\* it once.  Stated for a refresh of the window as it is on the store as it
\* is, and for the two calls in a row that addDonor, deleteDonor and the
\* constructor make.
C23_RefreshIdempotent ==
    window.open =>
       /\ LET once == populateDonorIds(window, GetAllDonorIds)
          IN populateDonorIds(once, GetAllDonorIds) = once
       /\ Len(ran.populated) = 2 =>
             /\ ran.populated[2].before = ran.populated[1].after
             /\ ran.populated[2].after = ran.populated[1].after

\* deleteDonor refreshed twice in a row, and the first refresh changed the
\* vector, the index and a button
C23_Witness ==
    /\ ran.slot = "deleteDonor" /\ Len(ran.populated) = 2
    /\ ran.populated[1].before.donorIds # ran.populated[1].after.donorIds
    /\ ran.populated[1].before.currentDonorIndex
          # ran.populated[1].after.currentDonorIndex
    /\ ran.populated[1].before.previousButton # ran.populated[1].after.previousButton

\* the slot moved the cursor by `step` from where it was before the slot ran
MovedBy(step) ==
    /\ window.donorIds = ran.before.donorIds
    /\ window.currentDonorIndex = ran.before.currentDonorIndex + step
    /\ window.currentDonorId = window.donorIds[window.currentDonorIndex + 1]

\* C25: loadPreviousDonor is a no-op unless index > 0, in which case the index
\* decreases by exactly one; loadNextDonor is a no-op unless index < length-1,
\* in which case the index increases by exactly one; in both moving cases the
\* current donor id becomes the sequence element at the new index and the
\* sequence itself is unchanged.
C25_PreviousAndNextStep ==
    /\ ran.slot = "loadPreviousDonor" =>
          IF ran.before.currentDonorIndex > 0
          THEN MovedBy(-1)
          ELSE window = ran.before
    /\ ran.slot = "loadNextDonor" =>
          IF ran.before.currentDonorIndex < Len(ran.before.donorIds) - 1
          THEN MovedBy(1)
          ELSE window = ran.before

\* previous has just moved from the second donor to the first
C25_Witness ==
    /\ ran.slot = "loadPreviousDonor"
    /\ ran.before.currentDonorIndex = 1
    /\ window.currentDonorIndex = 0
    /\ window.currentDonorId = window.donorIds[1]

\* next has just moved from the first donor to the second
C25_NextMoved ==
    /\ ran.slot = "loadNextDonor"
    /\ ran.before.currentDonorIndex = 0
    /\ window.currentDonorIndex = 1

\* the main window's addDonor has just completed successfully
AddedThroughWindow ==
    ran.slot = "addDonor" /\ last.op = "addDonor" /\ ~last.fault /\ last.ok

\* C26: after the main window's addDonor completes successfully, from any
\* prior cursor state and any prior history of adds and deletes, the cursor is
\* positioned on the donor that was just added: currentDonorId is the new
\* donor's identifier and currentDonorIndex is the last index of donorIds.
C26_CursorOnAddedDonor ==
    AddedThroughWindow =>
       /\ window.currentDonorId = last.id
       /\ window.donorIds # <<>>
       /\ window.currentDonorIndex = Len(window.donorIds) - 1
       /\ window.donorIds[window.currentDonorIndex + 1] = last.id

\* a donor added while no donor was loaded, after the only donor had been
\* deleted: the new donor has an identifier that was never used
C26_Witness ==
    /\ AddedThroughWindow
    /\ deletedDonors # {}
    /\ ran.before.currentDonorId = -1
    /\ last.id \notin deletedDonors

\* a donor added while another was loaded
C26_FromLoaded ==
    /\ AddedThroughWindow
    /\ ran.before.currentDonorId # -1
    /\ Len(window.donorIds) = 2

\* the windows the observer has seen: the one a slot left and those before and
\* after each populateDonorIds() inside it
ObservedWindows ==
    IF window.open
    THEN {window} \cup {ran.populated[k].before : k \in DOMAIN ran.populated}
                  \cup {ran.populated[k].after : k \in DOMAIN ran.populated}
    ELSE {}

C27_Emptied ==
    /\ ran.slot = "deleteDonor" /\ last.op = "deleteDonor" /\ ~last.fault
    /\ ran.before.currentDonorIndex = 0
    /\ window.donorIds = <<>>
    /\ window.currentDonorIndex = -1

OrganizationSaved ==
    /\ dialog.kind = "OrganizationDialog" /\ ~dialog.open
    /\ dialog.result = "Accepted"
    /\ OrganizationDialog_validateInputs(dialog.fields)
    /\ last.op = "setOrganizationDetails" /\ ~last.fault /\ last.ok

\* C30: organization address round trip through the dialog: for every valid
\* (all non-empty) street, city, state, zip and country saved by
\* MainWindow::setOrganization, reopening the dialog pre-fills street, city,
\* state, zip and country with exactly the saved values.
C30_AddressRoundTrip ==
    [][(OrganizationSaved /\ dialog'.open /\ dialog'.kind = "OrganizationDialog") =>
          /\ dialog'.fields.street = dialog.fields.street
          /\ dialog'.fields.city = dialog.fields.city
          /\ dialog'.fields.state = dialog.fields.state
          /\ dialog'.fields.zip = dialog.fields.zip
          /\ dialog'.fields.country = dialog.fields.country]_vars

\* the dialog reopened after a save shows the five fields that were saved
C30_SavedFieldsShown ==
    /\ dialog.open /\ dialog.kind = "OrganizationDialog"
    /\ last.op = "setOrganizationDetails" /\ ~last.fault /\ last.ok
    /\ dialog.fields = ValidOrganizationFields
    /\ GetOrganizationDetails.found
    /\ GetOrganizationDetails.address = combinedAddress(ValidOrganizationFields)

\* what validateInputs() of dialog d returns
Validates(d) ==
    CASE d.kind = "DonorDialog" -> DonorDialog_validateInputs(d.fields)
      [] d.kind = "DonationDialog" -> DonationDialog_validateInputs(d.fields)
      [] d.kind = "OrganizationDialog" -> OrganizationDialog_validateInputs(d.fields)

\* this step is the user pressing Save in the open dialog
SavePressed == dialog.open /\ dialog'.result = "Accepted"

\* C22: when the user presses Save in a donor, donation or organization dialog
\* whose input fails validation, the dialog remains open with the entered
\* values so the user can correct them; the dialog only closes on a valid
\* Save or on Cancel.
C22_InvalidSaveKeepsDialogOpen ==
    [][/\ (SavePressed /\ ~Validates(dialog)) =>
             (dialog'.open /\ dialog'.fields = dialog.fields)
       /\ (dialog.open /\ ~dialog'.open) =>
             (dialog'.result = "Rejected" \/ Validates(dialog))]_vars

\* Save on input that validates closes the dialog, and so does Cancel
C22_ClosedByValidSave ==
    /\ dialog.kind = "DonorDialog" /\ ~dialog.open
    /\ dialog.result = "Accepted" /\ Validates(dialog)
    /\ last.op = "addDonor" /\ last.ok

\* a required field of dialog d is empty
EmptyRequiredField(d) ==
    CASE d.kind = "DonorDialog" ->
            \E c \in {"firstName", "lastName", "street", "city", "state", "zip",
                       "country", "phone", "email"} : d.fields[c] = <<>>
      [] d.kind = "DonationDialog" ->
            \E c \in {"donorId", "amount", "paymentMethod"} : d.fields[c] = <<>>
      [] d.kind = "OrganizationDialog" ->
            \E c \in {"name", "street", "city", "state", "zip", "country"} :
               d.fields[c] = <<>>

\* the email field of a donor dialog does not hold an address: the text as a
\* whole is not of the form the pattern describes
MalformedEmail(d) ==
    d.kind = "DonorDialog"
       /\ ~emailRegexMatches(d.fields.email, 1, Len(d.fields.email))

\* the amount field of a donation dialog does not hold a number within the
\* range
UnacceptableAmount(d) ==
    d.kind = "DonationDialog" /\ ~hasAcceptableInput(d.fields.amount)

StoreAndCursorKept ==
    /\ UNCHANGED <<donors, donorsSeq, donations, donationsSeq, organization, window>>
    /\ last'.op = "none"

\* C21: when a donor, donation or organization dialog is accepted with
\* invalid input (an empty required field, a malformed email, or an
\* unacceptable amount), no storage write is issued: the store and the cursor
\* state are the same as before the dialog was opened.
C21_InvalidInputWritesNothing ==
    [][(SavePressed
          /\ (EmptyRequiredField(dialog) \/ MalformedEmail(dialog)
                 \/ UnacceptableAmount(dialog)))
         => StoreAndCursorKept]_vars

\* input that validateInputs() turns down is not written
C21_RejectedInputWritesNothing ==
    [][(SavePressed /\ ~Validates(dialog)) => StoreAndCursorKept]_vars

\* a donor was added whose email field held a name in front of an address
C21_MalformedEmailStored ==
    /\ last.op = "addDonor" /\ ~last.fault /\ last.ok
    /\ last.id \in DOMAIN donors
    /\ donors[last.id].email = EmailAfterName

\* Save was pressed with an amount out of range while a donor was loaded, and
\* nothing was written
C21_AmountTurnedDown ==
    /\ dialog.kind = "DonationDialog" /\ ~dialog.open /\ dialog.result = "Accepted"
    /\ dialog.fields.amount = AmountOutOfRange
    /\ window.currentDonorId # -1
    /\ last.op = "none"

====
